---- MODULE Spec2Model ----
(***************************************************************************)
(* A model of tiny8, a CHIP-8 / S-CHIP / XO-CHIP interpreter               *)
(* (src/include/tiny8.h).  The state is the interpreter object's fields;   *)
(* the operations are the host writing a program into the rom region and   *)
(* interpreter::advance, one fetch / decode / execute / timer step.        *)
(***************************************************************************)
EXTENDS Integers, Sequences, FiniteSets, TLC

(***************************************************************************)
(* Program constants.                                                      *)
(***************************************************************************)
c_maxMemory == 4096
c_maxStack == 1024
c_romStartAddress == 512
c_fontStartAddress == 0
c_displayWidth == 64
c_displayHeight == 32
c_displaySize == c_displayWidth * c_displayHeight
c_maxKeys == 16

c_fontset ==
  << 240, 144, 144, 144, 240,
      32,  96,  32,  32, 112,
     240,  16, 240, 128, 240,
     240,  16, 240,  16, 240,
     144, 144, 240,  16,  16,
     240, 128, 240,  16, 240,
     240, 128, 240, 144, 240,
     240,  16,  32,  64,  64,
     240, 144, 240, 144, 240,
     240, 144, 240,  16, 240,
     240, 144, 240, 144, 144,
     224, 144, 224, 144, 224,
     240, 128, 128, 128, 240,
     224, 144, 144, 144, 224,
     240, 128, 240, 128, 240,
     240, 128, 240, 128, 128 >>

\* interpreter::flags
none == 0
shift_legacy == 1
store_load_legacy == 2
jump_offset_legacy == 4
logical_legacy == 8
disp_sync_legacy == 16
draw_legacy == 32
all_legacy == shift_legacy + store_load_legacy + jump_offset_legacy
              + logical_legacy + disp_sync_legacy + draw_legacy
chip8_original == all_legacy
chip8_schip == draw_legacy
chip8_xochip == store_load_legacy + jump_offset_legacy + shift_legacy

\* The timer period of advance: elapsed_ms is a whole number of milliseconds
\* and is compared with 16.66f, so the first value that ticks is 17.
TickMs == 17

(***************************************************************************)
(* Fixed-width arithmetic.                                                 *)
(***************************************************************************)
U8(n) == n % 256
U16(n) == n % 65536

Bit(v, i) == (v \div (2 ^ i)) % 2

\* The C++ operators |, & and ^ on 8-bit operands, bit by bit.
Pack8(b) == b[0] + 2 * b[1] + 4 * b[2] + 8 * b[3]
            + 16 * b[4] + 32 * b[5] + 64 * b[6] + 128 * b[7]
BitOr(a, b) == Pack8([i \in 0..7 |-> IF Bit(a, i) = 1 \/ Bit(b, i) = 1 THEN 1 ELSE 0])
BitAnd(a, b) == Pack8([i \in 0..7 |-> IF Bit(a, i) = 1 /\ Bit(b, i) = 1 THEN 1 ELSE 0])
BitXor(a, b) == Pack8([i \in 0..7 |-> IF Bit(a, i) # Bit(b, i) THEN 1 ELSE 0])

\* (m_flags & flag) != 0, flag a single bit.
HasFlag(f, flag) == (f \div flag) % 2 = 1

(***************************************************************************)
(* The state.                                                              *)
(***************************************************************************)
VARIABLES
  m_data,                \* memory::m_data
  m_stack,               \* memory::m_stack
  m_display,             \* display::m_data
  m_index, m_sp, m_pc,   \* registers
  m_v,                   \* registers::m_v
  m_delay, m_sound,      \* timers
  m_key, m_prev_key,     \* input
  m_state,               \* decode_state
  m_currentInstruction,  \* the registered body decode selected, "null" at first
  m_isWaitingForInput,
  m_flags,
  since_frame_end,       \* milliseconds from m_frame_end to the clock, as of the last step's end
  m_fatal,               \* unimplemented() has asserted: the process is gone
  oob,                   \* an access outside m_data, m_stack or m_key has happened
  rom_loaded,            \* the host has written the program
  nsteps,                \* calls of advance so far
  last,                  \* what the most recent call of advance did
  last2                  \* what the call before it did

vars == << m_data, m_stack, m_display, m_index, m_sp, m_pc, m_v, m_delay, m_sound,
           m_key, m_prev_key, m_state, m_currentInstruction, m_isWaitingForInput,
           m_flags, since_frame_end, m_fatal, oob, rom_loaded, nsteps, last, last2 >>

\* The interpreter object as one value: the bodies below map it to its next value.
Self ==
  [ m_data |-> m_data, m_stack |-> m_stack, m_display |-> m_display,
    m_index |-> m_index, m_sp |-> m_sp, m_pc |-> m_pc, m_v |-> m_v,
    m_delay |-> m_delay, m_sound |-> m_sound,
    m_key |-> m_key, m_prev_key |-> m_prev_key,
    m_state |-> m_state, m_currentInstruction |-> m_currentInstruction,
    m_isWaitingForInput |-> m_isWaitingForInput, m_flags |-> m_flags,
    m_fatal |-> m_fatal, oob |-> oob ]

\* decode_state for an opcode, as fetch fills it.
DecodeState(opcode) ==
  [ m_opcode |-> opcode,
    m_x   |-> (opcode \div 256) % 16,
    m_y   |-> (opcode \div 16) % 16,
    m_n   |-> opcode % 16,
    m_nn  |-> opcode % 256,
    m_nnn |-> opcode % 4096 ]

NoKeys == [i \in 0..(c_maxKeys - 1) |-> 0]

\* A display of zeroes: memset(m_display.m_data, 0, ...).
BlankDisplay == [i \in 0..(c_displaySize - 1) |-> 0]

\* What one call of advance did, kept for the properties: the values before the
\* call, the key vector it was given, the opcode and body it executed and the
\* address that opcode was fetched from, the timers between execute and the
\* timer update; and, after the call, the calls not yet returned from, oldest
\* first, each as << address after the call, m_sp before the call >>, and the
\* addresses of m_data a store or load instruction changed, and which of
\* m_data and m_stack the call changed.
NoStep ==
  [ kind |-> "none", waiting |-> FALSE, pc |-> 0, opcode |-> 0, body |-> "null",
    v |-> [i \in 0..15 |-> 0], index |-> 0, sp |-> 0,
    display |-> BlankDisplay,
    executed |-> FALSE, fetched_at |-> 0, sprite |-> << >>, key |-> NoKeys,
    delay |-> 0, sound |-> 0, delay_mid |-> 0, sound_mid |-> 0,
    elapsed_ms |-> 0, returns |-> << >>, stored |-> {}, changed |-> {} ]

(***************************************************************************)
(* interpreter::interpreter.  The constructor zeroes memory, stack,        *)
(* display, registers and both key snapshots and copies the font; the      *)
(* default member initialisers give index, sp, pc, the timers and the      *)
(* waiting flag.  m_state is not initialised: every field is written by    *)
(* fetch before anything reads it, so its first value is immaterial.       *)
(* m_frame_end is the clock's epoch, so the first step's elapsed time is   *)
(* past the tick period.                                                   *)
(***************************************************************************)
Construct(behaviour_flags) ==
  /\ m_data = [a \in 0..(c_maxMemory - 1) |->
                 IF a >= c_fontStartAddress /\ a < c_fontStartAddress + Len(c_fontset)
                 THEN c_fontset[a - c_fontStartAddress + 1] ELSE 0]
  /\ m_stack = [i \in 0..(c_maxStack - 1) |-> 0]
  /\ m_display = BlankDisplay
  /\ m_index = 0
  /\ m_sp = 0
  /\ m_pc = c_romStartAddress
  /\ m_v = [i \in 0..15 |-> 0]
  /\ m_delay = 0
  /\ m_sound = 0
  /\ m_key = NoKeys
  /\ m_prev_key = NoKeys
  /\ m_state = DecodeState(0)
  /\ m_currentInstruction = "null"
  /\ m_isWaitingForInput = FALSE
  /\ m_flags = behaviour_flags
  /\ since_frame_end = TickMs
  /\ m_fatal = FALSE
  /\ oob = FALSE
  /\ rom_loaded = FALSE
  /\ nsteps = 0
  /\ last = NoStep
  /\ last2 = NoStep

(***************************************************************************)
(* The dispatch table: the add_instruction calls of the constructor, in    *)
(* order, as << family_key, instruction_key, opcodeMask, body >>.          *)
(***************************************************************************)
Registrations ==
  << <<0, 224, 255, "00E0">>, <<0, 238, 255, "00EE">>, <<0, 0, 0, "0nnn">>,
     <<16, 0, 0, "1nnn">>, <<32, 0, 0, "2nnn">>, <<48, 0, 0, "3xnn">>,
     <<64, 0, 0, "4xnn">>, <<80, 0, 0, "5xy0">>, <<96, 0, 0, "6xnn">>,
     <<112, 0, 0, "7xnn">>,
     <<128, 0, 15, "8xy0">>, <<128, 1, 15, "8xy1">>, <<128, 2, 15, "8xy2">>,
     <<128, 3, 15, "8xy3">>, <<128, 4, 15, "8xy4">>, <<128, 5, 15, "8xy5">>,
     <<128, 6, 15, "8xy6">>, <<128, 7, 15, "8xy7">>, <<128, 14, 15, "8xyE">>,
     <<144, 0, 15, "9xy0">>, <<160, 0, 0, "Annn">>, <<176, 0, 0, "Bnnn">>,
     <<192, 0, 0, "Cxnn">>, <<208, 0, 0, "Dxyn">>,
     <<224, U8(158), 255, "Ex9E">>, <<224, U8(161), 255, "ExA1">>,
     <<240, 7, 255, "Fx07">>, <<240, 10, 255, "Fx0A">>, <<240, 21, 255, "Fx15">>,
     <<240, 24, 255, "Fx18">>, <<240, 30, 255, "Fx1E">>, <<240, 41, 255, "Fx29">>,
     <<240, 51, 255, "Fx33">>, <<240, 85, 255, "Fx55">>, <<240, 101, 255, "Fx65">> >>

\* add_instruction: a family takes the mask of its first registration; a later
\* registration of the same key replaces the earlier one.
add_instruction(families, reg) ==
  LET family_key == reg[1]
      fam == IF family_key \in DOMAIN families
             THEN families[family_key]
             ELSE [m_opcodeMask |-> reg[3], m_instructions |-> << >>]
      withKey == [k \in (DOMAIN fam.m_instructions) \cup {reg[2]} |->
                    IF k = reg[2] THEN reg[4] ELSE fam.m_instructions[k]]
      newFam == [fam EXCEPT !.m_instructions = withKey]
  IN [f \in (DOMAIN families) \cup {family_key} |->
        IF f = family_key THEN newFam ELSE families[f]]

m_families ==
  LET build[n \in 0..Len(Registrations)] ==
        IF n = 0 THEN << >> ELSE add_instruction(build[n - 1], Registrations[n])
  IN build[Len(Registrations)]

\* a & b on 16-bit operands.
BitAnd16(a, b) ==
  LET f[i \in 0..16] == IF i = 16 THEN 0
                        ELSE (2 ^ i) * (Bit(a, i) * Bit(b, i)) + f[i + 1]
  IN f[0]

(***************************************************************************)
(* Accesses.  A read outside an array is undefined behaviour: it yields    *)
(* whatever byte lies there, modelled as the step's junk value.  A write   *)
(* outside m_data or m_stack is undefined behaviour too: it lands in what  *)
(* follows the array in the interpreter object.  struct memory is m_data,  *)
(* m_stack and the two pointers m_rom and m_font, and display::m_data is   *)
(* the next member of the interpreter; the sample is built with 4-byte or  *)
(* 8-byte pointers.  What lies past the display is not modelled.  Every    *)
(* such access sets oob.                                                   *)
(***************************************************************************)
ReadData(s, a, junk) == IF a < c_maxMemory THEN s.m_data[a] ELSE junk

\* A byte written `off` bytes past the end of m_data: into m_stack (low byte
\* of an entry first), into the two pointers, or into the display.
SpillByte(s, off, value, pointer_bytes) ==
  LET in_display == off - 2 * c_maxStack - 2 * pointer_bytes
  IN IF off < 2 * c_maxStack
     THEN [s EXCEPT !.m_stack[off \div 2] =
                       IF off % 2 = 0 THEN (@ \div 256) * 256 + value
                                      ELSE 256 * value + (@ % 256),
                    !.oob = TRUE]
     ELSE IF in_display >= 0 /\ in_display < c_displaySize
     THEN [s EXCEPT !.m_display[in_display] = value, !.oob = TRUE]
     ELSE [s EXCEPT !.oob = TRUE]

WriteData(s, a, value, pointer_bytes) ==
  IF a < c_maxMemory THEN [s EXCEPT !.m_data[a] = value]
  ELSE SpillByte(s, a - c_maxMemory, value, pointer_bytes)

\* m_stack[sp] = value: past the array the two bytes of the value spill.
WriteStack(s, sp, value, pointer_bytes) ==
  IF sp < c_maxStack THEN [s EXCEPT !.m_stack[sp] = value]
  ELSE SpillByte(SpillByte(s, 2 * sp, value % 256, pointer_bytes),
                 2 * sp + 1, value \div 256, pointer_bytes)

\* printf and assert(false): with assertions compiled in, the process aborts.
unimplemented(s) == [s EXCEPT !.m_fatal = TRUE]

\* interpreter::update_flag
update_flag(s, value) == [s EXCEPT !.m_v[15] = value]

\* interpreter::fetch
fetch(s, junk) ==
  LET pc == s.m_pc
      opcode == ReadData(s, pc, junk) * 256 + ReadData(s, pc + 1, junk)
  IN [s EXCEPT !.m_state = DecodeState(opcode),
               !.m_pc = U16(pc + 2),
               !.oob = @ \/ (pc + 1 >= c_maxMemory)]

\* interpreter::decode
\* decode looking up the opcode's whole low byte, whatever the family's mask.
decode_unmasked(s) ==
  LET opcode == s.m_state.m_opcode
      family_key == (opcode \div 4096) * 16
      known == family_key \in DOMAIN m_families
      family == m_families[family_key]
      key == opcode % 256
  IN IF known /\ key \in DOMAIN family.m_instructions
     THEN [s EXCEPT !.m_currentInstruction = family.m_instructions[key]]
     ELSE unimplemented(s)

decode(s) ==
  LET opcode == s.m_state.m_opcode
      family_key == (opcode \div 4096) * 16
      known == family_key \in DOMAIN m_families
      family == m_families[family_key]
      key == U8(BitAnd16(opcode, family.m_opcodeMask))
  IN IF known /\ key \in DOMAIN family.m_instructions
     THEN [s EXCEPT !.m_currentInstruction = family.m_instructions[key]]
     ELSE unimplemented(s)

(***************************************************************************)
(* The instruction bodies, in the order the constructor registers them.    *)
(***************************************************************************)
Vx(s) == s.m_v[s.m_state.m_x]
Vy(s) == s.m_v[s.m_state.m_y]

op_00E0(s) == [s EXCEPT !.m_display = BlankDisplay]

\* 00EE loading the program counter before it decrements the stack pointer.
op_00EE_loads_first(s, junk) ==
  LET sp == s.m_sp
  IN [s EXCEPT !.m_sp = U16(sp - 1),
               !.m_pc = IF sp < c_maxStack THEN s.m_stack[sp] ELSE junk * 257,
               !.oob = @ \/ (sp >= c_maxStack)]

op_00EE(s, junk) ==
  LET sp == U16(s.m_sp - 1)
  IN [s EXCEPT !.m_sp = sp,
               !.m_pc = IF sp < c_maxStack THEN s.m_stack[sp] ELSE junk * 257,
               !.oob = @ \/ (sp >= c_maxStack)]

op_0nnn(s) == unimplemented(s)

op_1nnn(s) == [s EXCEPT !.m_pc = s.m_state.m_nnn]

op_2nnn(s, pointer_bytes) ==
  LET sp == s.m_sp
      pushed == WriteStack(s, sp, s.m_pc, pointer_bytes)
  IN [pushed EXCEPT !.m_sp = U16(sp + 1), !.m_pc = s.m_state.m_nnn]

\* if (cond) m_pc += 2
\* SkipIf adding 4 where the code adds 2.
SkipIf_adds_four(s, cond) == IF cond THEN [s EXCEPT !.m_pc = U16(@ + 4)] ELSE s

SkipIf(s, cond) == IF cond THEN [s EXCEPT !.m_pc = U16(@ + 2)] ELSE s

op_3xnn(s) == SkipIf(s, Vx(s) = s.m_state.m_nn)
op_4xnn(s) == SkipIf(s, Vx(s) # s.m_state.m_nn)
op_5xy0(s) == SkipIf(s, Vx(s) = Vy(s))
op_6xnn(s) == [s EXCEPT !.m_v[s.m_state.m_x] = s.m_state.m_nn]
\* 7xnn stopping at 255 instead of wrapping.
op_7xnn_saturates(s) ==
  [s EXCEPT !.m_v[s.m_state.m_x] = IF @ + s.m_state.m_nn > 255 THEN 255 ELSE @ + s.m_state.m_nn]

op_7xnn(s) == [s EXCEPT !.m_v[s.m_state.m_x] = U8(@ + s.m_state.m_nn)]
op_8xy0(s) == [s EXCEPT !.m_v[s.m_state.m_x] = Vy(s)]

\* 8xy1, 8xy2, 8xy3: the result into Vx, then update_flag(0) under logical_legacy.
\* Logical with update_flag(0) whatever the flags.
Logical_always_zeroes(s, result) ==
  update_flag([s EXCEPT !.m_v[s.m_state.m_x] = result], 0)

Logical(s, result) ==
  LET r == [s EXCEPT !.m_v[s.m_state.m_x] = result]
  IN IF HasFlag(s.m_flags, logical_legacy) THEN update_flag(r, 0) ELSE r

op_8xy1(s) == Logical(s, BitOr(Vx(s), Vy(s)))
op_8xy2(s) == Logical(s, BitAnd(Vx(s), Vy(s)))
op_8xy3(s) == Logical(s, BitXor(Vx(s), Vy(s)))

\* 8xy4 with the carry taken at 255 instead of past it.
op_8xy4_carry_at_255(s) ==
  LET sum == Vx(s) + Vy(s)
  IN update_flag([s EXCEPT !.m_v[s.m_state.m_x] = sum % 256],
                 IF sum >= 255 THEN 1 ELSE 0)

op_8xy4(s) ==
  LET sum == Vx(s) + Vy(s)
  IN update_flag([s EXCEPT !.m_v[s.m_state.m_x] = sum % 256],
                 IF sum > 255 THEN 1 ELSE 0)

\* sub is an int16_t; sub & 0xff is its low byte in two's complement.
\* 8xy5 raising the flag when there is no borrow, equal operands included.
op_8xy5_no_borrow(s) ==
  LET sub == Vx(s) - Vy(s)
  IN update_flag([s EXCEPT !.m_v[s.m_state.m_x] = sub % 256],
                 IF sub >= 0 THEN 1 ELSE 0)

op_8xy5(s) ==
  LET sub == Vx(s) - Vy(s)
  IN update_flag([s EXCEPT !.m_v[s.m_state.m_x] = sub % 256],
                 IF sub > 0 THEN 1 ELSE 0)

\* The first statement of 8xy6 and 8xyE: Vx = Vy under shift_legacy.
\* ShiftSource with the test of shift_legacy left out: always Vx = Vy.
ShiftSource_always_copies(s) == [s EXCEPT !.m_v[s.m_state.m_x] = Vy(s)]

ShiftSource(s) ==
  IF HasFlag(s.m_flags, shift_legacy) THEN [s EXCEPT !.m_v[s.m_state.m_x] = Vy(s)] ELSE s

op_8xy6(s) ==
  LET t == ShiftSource(s)
      prev == Vx(t)
  IN update_flag([t EXCEPT !.m_v[s.m_state.m_x] = prev \div 2], prev % 2)

op_8xy7(s) ==
  LET sub == Vy(s) - Vx(s)
  IN update_flag([s EXCEPT !.m_v[s.m_state.m_x] = sub % 256],
                 IF sub > 0 THEN 1 ELSE 0)

op_8xyE(s) ==
  LET t == ShiftSource(s)
      prev == Vx(t)
  IN update_flag([t EXCEPT !.m_v[s.m_state.m_x] = U8(prev * 2)], (prev \div 128) % 2)

op_9xy0(s) == SkipIf(s, Vx(s) # Vy(s))
op_Annn(s) == [s EXCEPT !.m_index = s.m_state.m_nnn]

op_Bnnn(s) ==
  IF HasFlag(s.m_flags, jump_offset_legacy)
  THEN [s EXCEPT !.m_pc = U16(s.m_state.m_nnn + s.m_v[0])]
  ELSE [s EXCEPT !.m_pc = U16(s.m_state.m_nnn + Vx(s))]

\* rnd is std::rand().
op_Cxnn(s, rnd) == [s EXCEPT !.m_v[s.m_state.m_x] = BitAnd(rnd % 255, s.m_state.m_nn)]

\* The row loop of Dxyn skips row y under draw_legacy when coordy + y is past
\* the height; the column loop does the same with the width.
RowSkipped(s, coordyy) == HasFlag(s.m_flags, draw_legacy) /\ coordyy > c_displayHeight
ColSkipped(s, coordxx) == HasFlag(s.m_flags, draw_legacy) /\ coordxx > c_displayWidth

\* One pass of the inner loop of Dxyn: sprite row y, column x, on display d with
\* any_invalidated so far.
\* DrawCell counting a collision on every lit cell it visits.
DrawCell_flags_lit(s, acc, y, x, junk) ==
  LET coordx == Vx(s) % c_displayWidth
      coordy == Vy(s) % c_displayHeight
      coordyy == (coordy + y) % c_displayHeight
      coordxx == (coordx + x) % c_displayWidth
      sprite == ReadData(s, s.m_index + y, junk)
      sprite_volumn_value == Bit(sprite, 7 - x)
      display_data_index == coordyy * c_displayWidth + coordxx
      previous_display_value == acc.d[display_data_index]
      new_display_value == BitXor(previous_display_value, sprite_volumn_value)
  IN IF RowSkipped(s, coordy + y) \/ ColSkipped(s, coordx + x)
     THEN acc
     ELSE [ d |-> [acc.d EXCEPT ![display_data_index] = new_display_value],
            any |-> IF acc.any = 1 \/ previous_display_value # 0 THEN 1 ELSE 0 ]

\* DrawCell taking the sprite's columns from the least significant bit up.
DrawCell_lsb_first(s, acc, y, x, junk) ==
  LET coordx == Vx(s) % c_displayWidth
      coordy == Vy(s) % c_displayHeight
      coordyy == (coordy + y) % c_displayHeight
      coordxx == (coordx + x) % c_displayWidth
      sprite == ReadData(s, s.m_index + y, junk)
      sprite_volumn_value == Bit(sprite, x)
      display_data_index == coordyy * c_displayWidth + coordxx
      previous_display_value == acc.d[display_data_index]
      new_display_value == BitXor(previous_display_value, sprite_volumn_value)
  IN IF RowSkipped(s, coordy + y) \/ ColSkipped(s, coordx + x)
     THEN acc
     ELSE [ d |-> [acc.d EXCEPT ![display_data_index] = new_display_value],
            any |-> IF acc.any = 1 \/ (previous_display_value # 0 /\ new_display_value = 0)
                    THEN 1 ELSE 0 ]

\* DrawCell writing the OR of the cell and the sprite bit instead of the XOR.
DrawCell_ors(s, acc, y, x, junk) ==
  LET coordx == Vx(s) % c_displayWidth
      coordy == Vy(s) % c_displayHeight
      coordyy == (coordy + y) % c_displayHeight
      coordxx == (coordx + x) % c_displayWidth
      sprite == ReadData(s, s.m_index + y, junk)
      sprite_volumn_value == Bit(sprite, 7 - x)
      display_data_index == coordyy * c_displayWidth + coordxx
      previous_display_value == acc.d[display_data_index]
      new_display_value == BitOr(previous_display_value, sprite_volumn_value)
  IN IF RowSkipped(s, coordy + y) \/ ColSkipped(s, coordx + x)
     THEN acc
     ELSE [ d |-> [acc.d EXCEPT ![display_data_index] = new_display_value],
            any |-> IF acc.any = 1 \/ (previous_display_value # 0 /\ new_display_value = 0)
                    THEN 1 ELSE 0 ]

DrawCell(s, acc, y, x, junk) ==
  LET coordx == Vx(s) % c_displayWidth
      coordy == Vy(s) % c_displayHeight
      coordyy == (coordy + y) % c_displayHeight
      coordxx == (coordx + x) % c_displayWidth
      sprite == ReadData(s, s.m_index + y, junk)
      sprite_volumn_value == Bit(sprite, 7 - x)
      display_data_index == coordyy * c_displayWidth + coordxx
      previous_display_value == acc.d[display_data_index]
      new_display_value == BitXor(previous_display_value, sprite_volumn_value)
  IN IF RowSkipped(s, coordy + y) \/ ColSkipped(s, coordx + x)
     THEN acc
     ELSE [ d |-> [acc.d EXCEPT ![display_data_index] = new_display_value],
            any |-> IF acc.any = 1 \/ (previous_display_value # 0 /\ new_display_value = 0)
                    THEN 1 ELSE 0 ]

\* Whether the row loop of Dxyn reads a sprite row outside m_data.
SpriteOutside(s) ==
  \E y \in 0..(s.m_state.m_n - 1) :
     /\ ~RowSkipped(s, (Vy(s) % c_displayHeight) + y)
     /\ s.m_index + y >= c_maxMemory

\* The inner loop of Dxyn for sprite row y: columns 0 to 7 in turn.
DrawRow(s, acc, y, junk) ==
  LET cell[x \in 0..8] ==
        IF x = 0 THEN acc ELSE DrawCell(s, cell[x - 1], y, x - 1, junk)
  IN cell[8]

\* The outer loop: rows 0 to n - 1 in turn (each row is computed from the
\* value of the rows before it, p).
op_Dxyn(s, junk) ==
  LET n == s.m_state.m_n
      rows[k \in 0..n] ==
        IF k = 0 THEN [d |-> s.m_display, any |-> 0]
        ELSE CHOOSE r \in {DrawRow(s, p, k - 1, junk) : p \in {rows[k - 1]}} : TRUE
      done == rows[n]
  IN update_flag([s EXCEPT !.m_display = done.d, !.oob = @ \/ SpriteOutside(s)],
                 done.any)

\* m_input.m_key[Vx] != 0; Vx may be past the 16 keys.
KeyAtVx(s, junk) == IF Vx(s) < c_maxKeys THEN s.m_key[Vx(s)] # 0 ELSE junk # 0

op_Ex9E(s, junk) ==
  SkipIf([s EXCEPT !.oob = @ \/ (Vx(s) >= c_maxKeys)], KeyAtVx(s, junk))
op_ExA1(s, junk) ==
  SkipIf([s EXCEPT !.oob = @ \/ (Vx(s) >= c_maxKeys)], ~KeyAtVx(s, junk))

op_Fx07(s) == [s EXCEPT !.m_v[s.m_state.m_x] = s.m_delay]

\* The keys whose current and previous snapshots differ.
ChangedKeys(s) == {i \in 0..(c_maxKeys - 1) : BitXor(s.m_key[i], s.m_prev_key[i]) # 0}

\* Fx0A leaving the waiting state on a press instead of a release.
op_Fx0A_on_press(s) ==
  IF ChangedKeys(s) = {}
  THEN [s EXCEPT !.m_isWaitingForInput = TRUE]
  ELSE LET i == CHOOSE k \in ChangedKeys(s) : \A j \in ChangedKeys(s) : k <= j
       IN [s EXCEPT !.m_v[s.m_state.m_x] = i,
                    !.m_isWaitingForInput = (s.m_key[i] = 0)]

\* Fx0A stepping the program counter back while it goes on waiting.
op_Fx0A_rewinds(s) ==
  IF ChangedKeys(s) = {}
  THEN [s EXCEPT !.m_isWaitingForInput = TRUE, !.m_pc = U16(@ - 2)]
  ELSE LET i == CHOOSE k \in ChangedKeys(s) : \A j \in ChangedKeys(s) : k <= j
       IN [s EXCEPT !.m_v[s.m_state.m_x] = i,
                    !.m_isWaitingForInput = (s.m_key[i] # 0),
                    !.m_pc = IF s.m_key[i] # 0 THEN U16(@ - 2) ELSE @]

op_Fx0A(s) ==
  IF ChangedKeys(s) = {}
  THEN [s EXCEPT !.m_isWaitingForInput = TRUE]
  ELSE LET i == CHOOSE k \in ChangedKeys(s) : \A j \in ChangedKeys(s) : k <= j
       IN [s EXCEPT !.m_v[s.m_state.m_x] = i,
                    !.m_isWaitingForInput = (s.m_key[i] # 0)]

op_Fx15(s) == [s EXCEPT !.m_delay = Vx(s)]
op_Fx18(s) == [s EXCEPT !.m_sound = Vx(s)]

op_Fx1E(s) ==
  LET flagged == update_flag(s, IF s.m_index + Vx(s) > 4095 THEN 1 ELSE 0)
  IN [flagged EXCEPT !.m_index = U16(@ + Vx(flagged))]

\* m_memory.m_font[m_state.m_x]: the font byte at the register's number.
op_Fx29(s) == [s EXCEPT !.m_index = U16(@ + s.m_data[c_fontStartAddress + s.m_state.m_x])]

op_Fx33(s, pointer_bytes) ==
  LET v == Vx(s)
      a == WriteData(s, s.m_index, (v % 1000) \div 100, pointer_bytes)
      b == WriteData(a, s.m_index + 1, (v % 100) \div 10, pointer_bytes)
  IN WriteData(b, s.m_index + 2, v % 10, pointer_bytes)

\* m_index++ under store_load_legacy.
IndexAfterCopy(s) ==
  IF HasFlag(s.m_flags, store_load_legacy) THEN [s EXCEPT !.m_index = U16(@ + 1)] ELSE s

op_Fx55(s, pointer_bytes) ==
  LET x == s.m_state.m_x
      copy[k \in 0..(x + 1)] ==
        IF k = 0 THEN s
        ELSE WriteData(copy[k - 1], s.m_index + k - 1, s.m_v[k - 1], pointer_bytes)
  IN IndexAfterCopy(copy[x + 1])

op_Fx65(s, junk) ==
  LET x == s.m_state.m_x
      copied == [s EXCEPT
                  !.m_v = [i \in 0..15 |->
                             IF i <= x THEN ReadData(s, s.m_index + i, junk) ELSE s.m_v[i]],
                  !.oob = @ \/ (s.m_index + x >= c_maxMemory)]
  IN IndexAfterCopy(copied)

\* interpreter::execute: the body decode selected.
execute(s, inp) ==
  LET body == s.m_currentInstruction
  IN CASE body = "00E0" -> op_00E0(s)
       [] body = "00EE" -> op_00EE(s, inp.junk)
       [] body = "0nnn" -> op_0nnn(s)
       [] body = "1nnn" -> op_1nnn(s)
       [] body = "2nnn" -> op_2nnn(s, inp.pointer_bytes)
       [] body = "3xnn" -> op_3xnn(s)
       [] body = "4xnn" -> op_4xnn(s)
       [] body = "5xy0" -> op_5xy0(s)
       [] body = "6xnn" -> op_6xnn(s)
       [] body = "7xnn" -> op_7xnn(s)
       [] body = "8xy0" -> op_8xy0(s)
       [] body = "8xy1" -> op_8xy1(s)
       [] body = "8xy2" -> op_8xy2(s)
       [] body = "8xy3" -> op_8xy3(s)
       [] body = "8xy4" -> op_8xy4(s)
       [] body = "8xy5" -> op_8xy5(s)
       [] body = "8xy6" -> op_8xy6(s)
       [] body = "8xy7" -> op_8xy7(s)
       [] body = "8xyE" -> op_8xyE(s)
       [] body = "9xy0" -> op_9xy0(s)
       [] body = "Annn" -> op_Annn(s)
       [] body = "Bnnn" -> op_Bnnn(s)
       [] body = "Cxnn" -> op_Cxnn(s, inp.rnd)
       [] body = "Dxyn" -> op_Dxyn(s, inp.junk)
       [] body = "Ex9E" -> op_Ex9E(s, inp.junk)
       [] body = "ExA1" -> op_ExA1(s, inp.junk)
       [] body = "Fx07" -> op_Fx07(s)
       [] body = "Fx0A" -> op_Fx0A(s)
       [] body = "Fx15" -> op_Fx15(s)
       [] body = "Fx18" -> op_Fx18(s)
       [] body = "Fx1E" -> op_Fx1E(s)
       [] body = "Fx29" -> op_Fx29(s)
       [] body = "Fx33" -> op_Fx33(s, inp.pointer_bytes)
       [] body = "Fx55" -> op_Fx55(s, inp.pointer_bytes)
       [] body = "Fx65" -> op_Fx65(s, inp.junk)

\* The timer update of advance, elapsed_ms being now - m_frame_end.
\* UpdateTimers without the tests for zero: a timer at 0 wraps to 255.
UpdateTimers_no_saturation(s, elapsed_ms) ==
  IF elapsed_ms >= TickMs
  THEN [s EXCEPT !.m_delay = U8(@ - 1), !.m_sound = U8(@ - 1)]
  ELSE s

\* UpdateTimers catching up: one decrement for every whole period elapsed.
UpdateTimers_catches_up(s, elapsed_ms) ==
  LET ticks == elapsed_ms \div TickMs
  IN [s EXCEPT !.m_delay = IF @ > ticks THEN @ - ticks ELSE 0,
               !.m_sound = IF @ > ticks THEN @ - ticks ELSE 0]

\* UpdateTimers leaving the timers alone while the engine waits for a key.
UpdateTimers_unless_waiting(s, elapsed_ms) ==
  IF elapsed_ms >= TickMs /\ ~s.m_isWaitingForInput
  THEN [s EXCEPT !.m_delay = IF @ > 0 THEN U8(@ - 1) ELSE @,
                 !.m_sound = IF @ > 0 THEN U8(@ - 1) ELSE @]
  ELSE s

UpdateTimers(s, elapsed_ms) ==
  IF elapsed_ms >= TickMs
  THEN [s EXCEPT !.m_delay = IF @ > 0 THEN U8(@ - 1) ELSE @,
                 !.m_sound = IF @ > 0 THEN U8(@ - 1) ELSE @]
  ELSE s

\* The two memcpy calls at the head of advance.
\* UpdateKeys copying the previous snapshot after the new vector is in place.
UpdateKeys_overwrites_first(s, key_buffer) ==
  [s EXCEPT !.m_key = key_buffer, !.m_prev_key = key_buffer]

UpdateKeys(s, key_buffer) == [s EXCEPT !.m_prev_key = s.m_key, !.m_key = key_buffer]

\* if (!m_isWaitingForInput) { fetch(); decode(); }
\* FetchDecode without the test of m_isWaitingForInput.
FetchDecode_while_waiting(s, junk) == decode(fetch(s, junk))

FetchDecode(s, junk) == IF ~s.m_isWaitingForInput THEN decode(fetch(s, junk)) ELSE s

\* The sprite rows a Dxyn body reads.
SpriteRows(s, junk) ==
  [y \in 1..s.m_state.m_n |-> ReadData(s, s.m_index + y - 1, junk)]

(***************************************************************************)
(* The host writes a program into the rom region, once, before the first   *)
(* step (sample: rom.read into get_memory()->m_rom).  A program is a       *)
(* sequence of opcodes, each stored high byte first.                       *)
(***************************************************************************)
RomByte(prog, k) ==
  LET opcode == prog[(k \div 2) + 1]
  IN IF k % 2 = 0 THEN opcode \div 256 ELSE opcode % 256

LoadRom(programs) ==
  /\ ~rom_loaded
  /\ \E prog \in programs :
       LET written[k \in 0..(2 * Len(prog))] ==
             IF k = 0 THEN m_data
             ELSE [written[k - 1] EXCEPT ![c_romStartAddress + k - 1] = RomByte(prog, k - 1)]
       IN m_data' = written[2 * Len(prog)]
  /\ rom_loaded' = TRUE
  /\ UNCHANGED << m_stack, m_display, m_index, m_sp, m_pc, m_v, m_delay, m_sound,
                  m_key, m_prev_key, m_state, m_currentInstruction,
                  m_isWaitingForInput, m_flags, since_frame_end, m_fatal, oob,
                  nsteps, last, last2 >>

(***************************************************************************)
(* interpreter::advance.  inp holds what the call takes from outside: the  *)
(* key vector, the time dt the clock moved since the last call ended,      *)
(* std::rand()'s value, the byte an out-of-range read finds and the size   *)
(* of a pointer in the build.                                              *)
(***************************************************************************)
advance(inp, maxSteps) ==
  /\ rom_loaded
  /\ ~m_fatal
  /\ nsteps < maxSteps
  /\ \E s1 \in {FetchDecode(UpdateKeys(Self, inp.key_buffer), inp.junk)} :
     \E s2 \in {IF s1.m_fatal THEN s1 ELSE execute(s1, inp)} :
     \E elapsed_ms \in {since_frame_end + inp.dt} :
     \E s3 \in {IF s2.m_fatal THEN s2 ELSE UpdateTimers(s2, elapsed_ms)} :
        /\ m_data' = s3.m_data
        /\ m_stack' = s3.m_stack
        /\ m_display' = s3.m_display
        /\ m_index' = s3.m_index
        /\ m_sp' = s3.m_sp
        /\ m_pc' = s3.m_pc
        /\ m_v' = s3.m_v
        /\ m_delay' = s3.m_delay
        /\ m_sound' = s3.m_sound
        /\ m_key' = s3.m_key
        /\ m_prev_key' = s3.m_prev_key
        /\ m_state' = s3.m_state
        /\ m_currentInstruction' = s3.m_currentInstruction
        /\ m_isWaitingForInput' = s3.m_isWaitingForInput
        /\ m_flags' = s3.m_flags
        /\ m_fatal' = s3.m_fatal
        /\ oob' = s3.oob
        /\ since_frame_end' = IF s2.m_fatal THEN since_frame_end
                              ELSE IF elapsed_ms >= TickMs THEN 0 ELSE elapsed_ms
        /\ last' = [ kind |-> "step",
                     waiting |-> m_isWaitingForInput,
                     pc |-> m_pc,
                     opcode |-> s1.m_state.m_opcode,
                     body |-> s1.m_currentInstruction,
                     executed |-> ~s1.m_fatal,
                     fetched_at |-> IF m_isWaitingForInput THEN last.fetched_at ELSE m_pc,
                     sprite |-> IF ~s1.m_fatal /\ s1.m_currentInstruction = "Dxyn"
                                THEN SpriteRows(s1, inp.junk) ELSE << >>,
                     key |-> inp.key_buffer,
                     v |-> m_v, index |-> m_index, sp |-> m_sp,
                     display |-> m_display,
                     delay |-> m_delay, sound |-> m_sound,
                     delay_mid |-> s2.m_delay, sound_mid |-> s2.m_sound,
                     elapsed_ms |-> elapsed_ms,
                     returns |->
                       IF s1.m_fatal THEN last.returns
                       ELSE IF s1.m_currentInstruction = "2nnn"
                       THEN Append(last.returns, << U16(m_pc + 2), m_sp >>)
                       ELSE IF s1.m_currentInstruction = "00EE" /\ last.returns # << >>
                       THEN SubSeq(last.returns, 1, Len(last.returns) - 1)
                       ELSE last.returns,
                     stored |->
                       IF ~s1.m_fatal /\ s1.m_currentInstruction \in {"Fx33", "Fx55", "Fx65"}
                       THEN {a \in 0..(c_maxMemory - 1) : s2.m_data[a] # m_data[a]}
                       ELSE {},
                     changed |->
                       {a \in {"m_data"} : s3.m_data # m_data}
                         \cup {a \in {"m_stack"} : s3.m_stack # m_stack} ]
  /\ last2' = last
  /\ nsteps' = nsteps + 1
  /\ UNCHANGED rom_loaded

\* The key vector with exactly the keys of `pressed` down.
Keys(pressed) == [i \in 0..(c_maxKeys - 1) |-> IF i \in pressed THEN 1 ELSE 0]

\* An opcode from its four nibbles.
Op(a, b, c, d) == a * 4096 + b * 256 + c * 16 + d
\* An opcode from its first two nibbles and its low byte.
OpNN(a, b, nn) == a * 4096 + b * 256 + nn

Presets == {chip8_original, chip8_schip, chip8_xochip}
FlagChoices == Presets \cup {none}

(***************************************************************************)
(* Spec: register-to-register arithmetic, logic and shifts.  The program   *)
(* loads two registers and applies one 8xy_ instruction to them.           *)
(***************************************************************************)
MaxSteps == 3
RegChoices == {0, 1, 15}
ByteChoices == {0, 1, 128, 255}
AluKinds == {0, 1, 2, 3, 4, 5, 6, 7, 14}

AluPrograms ==
  { << OpNN(6, x, a), OpNN(6, y, b), Op(8, x, y, k) >> :
      x \in RegChoices, y \in RegChoices, a \in ByteChoices, b \in ByteChoices,
      k \in AluKinds }

Init == \E f \in FlagChoices : Construct(f)

LoadAlu == LoadRom(AluPrograms)
StepAlu ==
  advance([key_buffer |-> NoKeys, dt |-> TickMs, rnd |-> 0, junk |-> 0, pointer_bytes |-> 8], MaxSteps)

Next == LoadAlu \/ StepAlu
Spec == Init /\ [][Next]_vars

(***************************************************************************)
(* SpecSkip: the six skip instructions.  The program loads two registers   *)
(* and applies one skip instruction; the host presses or releases key 1.   *)
(***************************************************************************)
MaxStepsSkip == 3
SkipBytes == {1, 255}

SkipOps(x, y) ==
  {OpNN(3, x, nn) : nn \in SkipBytes} \cup {OpNN(4, x, nn) : nn \in SkipBytes}
    \cup {Op(5, x, y, 0), Op(9, x, y, 0)}

SkipPrograms ==
  UNION { { << OpNN(6, x, a), OpNN(6, y, b), op >> :
              a \in SkipBytes, b \in SkipBytes, op \in SkipOps(x, y) } :
          x \in RegChoices, y \in RegChoices }

KeySkipPrograms ==
  { << OpNN(6, x, a), OpNN(14, x, low) >> :
      x \in RegChoices, a \in {0, 1, 16, 255}, low \in {158, 161} }

SkipKeyChoices == {NoKeys, Keys({1})}
JunkChoices == {0, 255}

LoadSkip == LoadRom(SkipPrograms \cup KeySkipPrograms)
StepSkip ==
  \E kb \in SkipKeyChoices, j \in JunkChoices :
     advance([key_buffer |-> kb, dt |-> TickMs, rnd |-> 0, junk |-> j, pointer_bytes |-> 8], MaxStepsSkip)

NextSkip == LoadSkip \/ StepSkip
SpecSkip == Init /\ [][NextSkip]_vars

(***************************************************************************)
(* SpecTimer: the delay and sound timers.  The program sets both timers    *)
(* and then waits for a key that never comes; between two calls the clock  *)
(* moves by nothing, by part of a period or by several periods.            *)
(***************************************************************************)
MaxStepsTimer == 6
TimerBytes == {0, 1, 2, 255}
ClockChoices == {0, 9, 50}

TimerPrograms ==
  { << OpNN(6, 0, a), OpNN(15, 0, 21), OpNN(6, 1, b), OpNN(15, 1, 24), OpNN(15, 0, 10) >> :
      a \in TimerBytes, b \in TimerBytes }

\* The sample constructs its interpreter with the XO-CHIP preset.
InitSample == Construct(chip8_xochip)

LoadTimer == LoadRom(TimerPrograms)
StepTimer ==
  \E dt \in ClockChoices :
     advance([key_buffer |-> NoKeys, dt |-> dt, rnd |-> 0, junk |-> 0, pointer_bytes |-> 8], MaxStepsTimer)

NextTimer == LoadTimer \/ StepTimer
SpecTimer == InitSample /\ [][NextTimer]_vars

(***************************************************************************)
(* SpecKey: wait-for-key.  The program is one instruction, Fx0A and the    *)
(* instruction after it; the host presses and releases keys 0, 3 and 15.   *)
(***************************************************************************)
MaxStepsKey == 5

KeyPrograms ==
  { << OpNN(6, 2, 9), OpNN(15, x, 10), OpNN(7, 2, 1) >> : x \in {0, 15} }

KeyChoices == {NoKeys, Keys({0}), Keys({3}), Keys({15}), Keys({0, 3}), Keys({3, 15})}

LoadKey == LoadRom(KeyPrograms)
StepKey ==
  \E kb \in KeyChoices :
     advance([key_buffer |-> kb, dt |-> TickMs, rnd |-> 0, junk |-> 0, pointer_bytes |-> 8], MaxStepsKey)

NextKey == LoadKey \/ StepKey
SpecKey == InitSample /\ [][NextKey]_vars

(***************************************************************************)
(* SpecDraw: the draw instruction.  The program places a sprite, draws a   *)
(* second sprite over it and draws that second sprite again.               *)
(***************************************************************************)
MaxStepsDraw == 7
DrawRegs == { <<0, 1>>, <<0, 15>>, <<15, 1>>, <<1, 1>> }
DrawXs == {0, 56, 60, 127}
DrawYs == {0, 25, 31}
DrawRows == {1, 5, 15}
SpriteAddresses == {0, 75, c_romStartAddress, 4090}

DrawPrograms ==
  { << OpNN(6, r[1], a), OpNN(6, r[2], b), OpNN(10, 0, i),
       Op(13, r[1], r[2], n), OpNN(10, 0, 5), Op(13, r[1], r[2], n), Op(13, r[1], r[2], n) >> :
      r \in DrawRegs, a \in DrawXs, b \in DrawYs, n \in DrawRows, i \in SpriteAddresses }

LoadDraw == LoadRom(DrawPrograms)
StepDraw ==
  \E j \in JunkChoices :
     advance([key_buffer |-> NoKeys, dt |-> TickMs, rnd |-> 0, junk |-> j, pointer_bytes |-> 8], MaxStepsDraw)

NextDraw == LoadDraw \/ StepDraw
SpecDraw == Init /\ [][NextDraw]_vars

(***************************************************************************)
(* Properties.  They speak of the most recent call of advance through      *)
(* `last`: the values before the call, and the body it executed.           *)
(***************************************************************************)
\* The most recent call of advance executed `body` (to its end).
Ran(body) == last.kind = "step" /\ last.executed /\ last.body = body /\ ~m_fatal

\* The x and y nibbles of the opcode the most recent call executed.
LastX == (last.opcode \div 256) % 16
LastY == (last.opcode \div 16) % 16

LastSum == last.v[LastX] + last.v[LastY]
CarryOf(sum) == IF sum > 255 THEN 1 ELSE 0

\* C4 as stated: after 8xy4, for every x and y in 0..15, V[15] is 1 iff
\* Vx + Vy (values before the step) exceeds 255, and Vx is (Vx + Vy) mod 256.
C4_AddCarryEveryX ==
  Ran("8xy4") => /\ m_v[15] = CarryOf(LastSum)
                 /\ m_v[LastX] = LastSum % 256

\* C4 amended: after 8xy4, for every x and y, V[15] is 1 iff Vx + Vy exceeds
\* 255 and 0 otherwise; Vx is (Vx + Vy) mod 256 when x is not 15 (when x is
\* 15 the flag write comes last and V[15] holds the carry).
C4_AddCarry ==
  Ran("8xy4") => /\ m_v[15] = CarryOf(LastSum)
                 /\ LastX # 15 => m_v[LastX] = LastSum % 256

C4_Witness ==
  /\ Ran("8xy4")
  /\ LastX # 15
  /\ LastSum > 255
  /\ m_v[15] = 1
  /\ m_v[LastX] = LastSum - 256

LastLogical == Ran("8xy1") \/ Ran("8xy2") \/ Ran("8xy3")

\* C9 as stated: after 8xy1, 8xy2 or 8xy3 the flag register is 0 under the
\* original preset, and equals its value before the instruction under the
\* S-CHIP and XO-CHIP presets.
C9_LogicalFlagEveryX ==
  LastLogical =>
    /\ m_flags = chip8_original => m_v[15] = 0
    /\ m_flags \in {chip8_schip, chip8_xochip} => m_v[15] = last.v[15]

\* C9 amended: after 8xy1, 8xy2 or 8xy3 the flag register is 0 under the
\* original preset; under the S-CHIP and XO-CHIP presets it equals its value
\* before the instruction when x is not 15 (when x is 15 it is the
\* instruction's destination and holds the result).
C9_LogicalFlag ==
  LastLogical =>
    /\ m_flags = chip8_original => m_v[15] = 0
    /\ m_flags \in {chip8_schip, chip8_xochip} /\ LastX # 15 => m_v[15] = last.v[15]

C9_Witness ==
  /\ Ran("8xy1")
  /\ m_flags = chip8_schip
  /\ LastX # 15
  /\ last.v[15] = 255
  /\ m_v[15] = 255
  /\ m_v[LastX] = 255

\* The value a shift instruction shifts: Vy under shift_legacy, Vx otherwise.
ShiftedValue ==
  IF HasFlag(m_flags, shift_legacy) THEN last.v[LastY] ELSE last.v[LastX]

ShiftResult == IF Ran("8xy6") THEN ShiftedValue \div 2 ELSE (ShiftedValue * 2) % 256
ShiftedOutBit == IF Ran("8xy6") THEN ShiftedValue % 2 ELSE (ShiftedValue \div 128) % 2

\* C10 as stated: after 8xy6 / 8xyE the x register holds the shifted value
\* (of Vy under shift-legacy, of Vx otherwise) and the flag register holds
\* the bit shifted out of the value before the shift.
C10_ShiftEveryX ==
  Ran("8xy6") \/ Ran("8xyE") =>
    /\ m_v[LastX] = ShiftResult
    /\ m_v[15] = ShiftedOutBit

\* C10 amended: after 8xy6 / 8xyE the flag register holds the bit shifted out
\* of the value before the shift (Vy under shift-legacy, Vx otherwise; bit 0
\* for the right shift, bit 7 for the left), and the x register holds the
\* shifted value mod 256 when x is not 15.
C10_Shift ==
  Ran("8xy6") \/ Ran("8xyE") =>
    /\ m_v[15] = ShiftedOutBit
    /\ LastX # 15 => m_v[LastX] = ShiftResult

C10_Witness ==
  /\ Ran("8xyE")
  /\ m_flags = chip8_schip
  /\ LastX = 0 /\ LastY = 1
  /\ last.v[0] = 255 /\ last.v[1] = 1
  /\ m_v[0] = 254 /\ m_v[15] = 1

\* The difference the subtraction just executed computes: Vx - Vy for 8xy5,
\* Vy - Vx for 8xy7.
LastDifference ==
  IF Ran("8xy5") THEN last.v[LastX] - last.v[LastY] ELSE last.v[LastY] - last.v[LastX]

\* d mod 256 for a difference d of two bytes.
Mod256(d) == IF d >= 0 THEN d ELSE d + 256

\* C17: after 8xy5 (Vx - Vy) and 8xy7 (Vy - Vx) the flag register is 1 iff the
\* difference is strictly positive, 0 when it is negative or zero, and, when x
\* is not 15, register x holds the difference mod 256.
C17_SubtractFlag ==
  (Ran("8xy5") \/ Ran("8xy7")) =>
    /\ m_v[15] = (IF LastDifference > 0 THEN 1 ELSE 0)
    /\ LastX # 15 => m_v[LastX] = Mod256(LastDifference)

\* A subtraction of two equal non-zero operands in different registers has
\* left 0 in register x and in the flag register.
C17_Witness ==
  /\ Ran("8xy5") \/ Ran("8xy7")
  /\ LastX # 15 /\ LastY # 15 /\ LastX # LastY
  /\ last.v[LastX] = last.v[LastY] /\ last.v[LastX] > 0
  /\ m_v[LastX] = 0
  /\ m_v[15] = 0

LastNN == last.opcode % 256

\* The most recent call executed a skip instruction whose condition is defined:
\* Ex9E and ExA1 with Vx past the 16 keys test no key.
LastSkipDefined ==
  \/ Ran("3xnn") \/ Ran("4xnn") \/ Ran("5xy0") \/ Ran("9xy0")
  \/ (Ran("Ex9E") \/ Ran("ExA1")) /\ last.v[LastX] < c_maxKeys

\* The condition of the skip instruction the most recent call executed, on the
\* registers before the call and the key vector the call was given.
LastSkipCondition ==
  CASE Ran("3xnn") -> last.v[LastX] = LastNN
    [] Ran("4xnn") -> last.v[LastX] # LastNN
    [] Ran("5xy0") -> last.v[LastX] = last.v[LastY]
    [] Ran("9xy0") -> last.v[LastX] # last.v[LastY]
    [] Ran("Ex9E") -> last.key[last.v[LastX]] # 0
    [] Ran("ExA1") -> last.key[last.v[LastX]] = 0

Stepped == last.kind = "step" /\ last.executed /\ ~m_fatal

\* C7: neither timer goes below 0: each stays in 0..255, and a timer that is 0
\* stays 0 through every step, whatever time has elapsed, unless that step's
\* instruction (Fx15 for the delay timer, Fx18 for the sound timer) sets it.
C7_TimersSaturate ==
  /\ m_delay \in 0..255
  /\ m_sound \in 0..255
  /\ Stepped =>
       /\ last.delay = 0 /\ last.body # "Fx15" => m_delay = 0
       /\ last.sound = 0 /\ last.body # "Fx18" => m_sound = 0
       /\ last.delay_mid = 0 => m_delay = 0
       /\ last.sound_mid = 0 => m_sound = 0

C7_Witness ==
  /\ Stepped
  /\ last.elapsed_ms >= TickMs
  /\ last2.delay_mid = 1 /\ last.delay = 0 /\ m_delay = 0
  /\ last.sound = 0 /\ m_sound = 0

Decremented(before, after) == before > 0 /\ after = before - 1

\* C8: in one step each timer is decremented at most once, however much time
\* has elapsed: its value after the step is its value after the step's
\* instruction, or that value minus one.  A decrement happens only in a step
\* in which the time elapsed since m_frame_end, the last timer update, has
\* reached the tick period, and in such a step every non-zero timer is
\* decremented.
C8_OneTickPerStep ==
  Stepped =>
    /\ m_delay \in {last.delay_mid, last.delay_mid - 1}
    /\ m_sound \in {last.sound_mid, last.sound_mid - 1}
    /\ m_delay # last.delay_mid \/ m_sound # last.sound_mid => last.elapsed_ms >= TickMs
    /\ last.elapsed_ms >= TickMs =>
         /\ last.delay_mid > 0 => Decremented(last.delay_mid, m_delay)
         /\ last.sound_mid > 0 => Decremented(last.sound_mid, m_sound)

C8_Witness ==
  /\ Stepped
  /\ last.elapsed_ms >= 2 * TickMs
  /\ last.delay_mid = 254 /\ m_delay = 253
  /\ last.sound_mid = 2 /\ m_sound = 1

\* The key vector of the call before the most recent one: all keys released
\* when there was none (the constructor's memset).
PrecedingKeys == IF last2.kind = "step" THEN last2.key ELSE NoKeys

\* Key k is released in the most recent call's vector and was pressed in the
\* preceding call's.
Released(k) == PrecedingKeys[k] # 0 /\ last.key[k] = 0

\* No key below k differs between the two vectors.
LowestChanged(k) == \A j \in 0..(k - 1) : last.key[j] = PrecedingKeys[j]

\* The Fx0A body of the most recent call detected a key release.
ReleaseDetected == \E k \in 0..(c_maxKeys - 1) : Released(k) /\ LowestChanged(k)

\* C1: the engine is Ready or WaitingForKey.  A step taken while waiting
\* fetches and decodes nothing (program counter and decoded opcode are as
\* before) and executes the Fx0A body only.  Waiting is entered only by a
\* step that executes Fx0A without detecting a key release and left only by
\* one whose Fx0A body detects a release; the step after that fetches the
\* instruction following Fx0A.
C1_WaitingForKey ==
  /\ m_isWaitingForInput \in BOOLEAN
  /\ m_isWaitingForInput => Ran("Fx0A") /\ m_pc = last.fetched_at + 2
  /\ Stepped /\ last.waiting =>
       /\ last.body = "Fx0A" /\ last2.body = "Fx0A"
       /\ m_pc = last.pc
       /\ m_state = DecodeState(last2.opcode)
       /\ last.fetched_at = last2.fetched_at
  /\ Stepped /\ ~last.waiting /\ m_isWaitingForInput => Ran("Fx0A") /\ ~ReleaseDetected
  /\ Stepped /\ last.waiting /\ ~m_isWaitingForInput => Ran("Fx0A") /\ ReleaseDetected
  /\ last.kind = "step" /\ last2.kind = "step" /\ last2.body = "Fx0A" /\ ~last.waiting =>
       last.pc = last2.fetched_at + 2 /\ last.fetched_at = last.pc

C1_Witness ==
  /\ Ran("7xnn")
  /\ last2.waiting /\ last2.body = "Fx0A"
  /\ ~last.waiting
  /\ last.pc = c_romStartAddress + 4
  /\ m_pc = c_romStartAddress + 6

\* C2 as stated: for every key k, when Fx0A is executed in a step whose key
\* vector has k released while the preceding step's had k pressed, register
\* x holds k after the step and the engine is Ready.
C2_EveryReleasedKey ==
  Ran("Fx0A") =>
    \A k \in 0..(c_maxKeys - 1) :
       Released(k) => m_v[LastX] = k /\ ~m_isWaitingForInput

\* C2 amended: for every key k, when Fx0A is executed in a step whose key
\* vector has k released while the preceding step's had k pressed, and no
\* key of lower index differs between the two vectors, register x holds k
\* after the step and the engine is Ready; the following step then fetches
\* the instruction after Fx0A.
C2_LowestReleasedKey ==
  /\ Ran("Fx0A") =>
       \A k \in 0..(c_maxKeys - 1) :
          Released(k) /\ LowestChanged(k) => m_v[LastX] = k /\ ~m_isWaitingForInput
  /\ last.kind = "step" /\ last2.kind = "step" /\ last2.body = "Fx0A" /\ ~last.waiting =>
       last.pc = last2.fetched_at + 2

C2_Witness ==
  /\ Ran("Fx0A")
  /\ Released(3) /\ LowestChanged(3)
  /\ last.waiting
  /\ m_v[LastX] = 3
  /\ ~m_isWaitingForInput

Cells == 0..(c_displaySize - 1)

\* Some cell went from 1 to 0 (from 0 to 1) between displays d and e.
SomeCellCleared(d, e) == \E c \in Cells : d[c] = 1 /\ e[c] = 0
SomeCellSet(d, e) == \E c \in Cells : d[c] = 0 /\ e[c] = 1

\* C5: after Dxyn, under every combination of flags, display content, sprite
\* and register values, V[15] is 1 iff at least one display cell went from 1
\* to 0 during the blit, and 0 otherwise.
C5_CollisionFlag ==
  Ran("Dxyn") =>
    m_v[15] = (IF SomeCellCleared(last.display, m_display) THEN 1 ELSE 0)

C5_Witness ==
  /\ Ran("Dxyn")
  /\ m_v[15] = 1
  /\ SomeCellCleared(last.display, m_display)
  /\ SomeCellSet(last.display, m_display)

\* The last two calls executed the same draw instruction with the same index
\* register, the same sprite bytes and the same values in registers x and y.
SameDrawTwice ==
  /\ Ran("Dxyn")
  /\ last2.kind = "step" /\ last2.executed /\ last2.body = "Dxyn"
  /\ last.opcode = last2.opcode
  /\ last.index = last2.index
  /\ last.sprite = last2.sprite
  /\ last.v[LastX] = last2.v[LastX]
  /\ last.v[LastY] = last2.v[LastY]

\* C6: executing the same draw twice in a row leaves the whole display as it
\* was before the first draw, and if the first draw set at least one cell to
\* 1 the flag register after the second draw is 1.
C6_DrawTwice ==
  SameDrawTwice =>
    /\ m_display = last2.display
    /\ SomeCellSet(last2.display, last.display) => m_v[15] = 1

C6_Witness ==
  /\ SameDrawTwice
  /\ SomeCellSet(last2.display, last.display)
  /\ SomeCellCleared(last2.display, last.display)
  /\ m_display = last2.display
  /\ m_v[15] = 1

(***************************************************************************)
(* SpecImm: load-immediate and add-immediate.  The program loads a         *)
(* register and adds to it and to a second register.                       *)
(***************************************************************************)
MaxStepsImm == 3
ImmLoads == {5, 255}
ImmAdds == {1, 3, 255}

ImmPrograms ==
  { << OpNN(6, x, a), OpNN(7, x, b), OpNN(7, y, c) >> :
      x \in RegChoices, y \in RegChoices, a \in ImmLoads, b \in ImmAdds, c \in ImmAdds }

LoadImm == LoadRom(ImmPrograms)
StepImm ==
  advance([key_buffer |-> NoKeys, dt |-> TickMs, rnd |-> 0, junk |-> 0, pointer_bytes |-> 8], MaxStepsImm)

NextImm == LoadImm \/ StepImm
SpecImm == Init /\ [][NextImm]_vars

\* The program bytes 0x60 0x05 0x70 0x03 at 0x200, under the original preset.
ScenarioLoaded ==
  /\ m_flags = chip8_original
  /\ rom_loaded
  /\ m_data[c_romStartAddress] = 96 /\ m_data[c_romStartAddress + 1] = 5
  /\ m_data[c_romStartAddress + 2] = 112 /\ m_data[c_romStartAddress + 3] = 3

\* C11: 6xnn sets Vx to nn and 7xnn sets Vx to (Vx + nn) mod 256, no other
\* register changes, and the step advances the program counter by exactly 2;
\* with the original preset and the program 60 05 70 03, after two steps
\* register 0 is 8 and the program counter is 0x204.
C11_LoadAddImmediate ==
  /\ Ran("6xnn") =>
       /\ m_v = [last.v EXCEPT ![LastX] = LastNN]
       /\ m_pc = last.pc + 2
  /\ Ran("7xnn") =>
       /\ m_v = [last.v EXCEPT ![LastX] = (last.v[LastX] + LastNN) % 256]
       /\ m_pc = last.pc + 2
  /\ (ScenarioLoaded /\ nsteps = 2) => (m_v[0] = 8 /\ m_pc = 516)

\* The scenario's two steps have run: 6005 at 0x200, then 7003.
C11_Witness ==
  /\ ScenarioLoaded /\ nsteps = 2 /\ Ran("7xnn")
  /\ last2.kind = "step" /\ last2.body = "6xnn" /\ last2.pc = c_romStartAddress

\* The number of sprite rows of the draw just executed.
LastN == last.opcode % 16

\* The sprite of the draw just executed lies within the display when placed
\* at (Vx, Vy): it crosses neither the right nor the bottom edge.
SpriteFits ==
  /\ last.v[LastX] + 7 < c_displayWidth
  /\ last.v[LastY] + LastN - 1 < c_displayHeight

\* The value drawing `sprite` at (vx, vy) on a blank display gives cell (col, row).
SpriteBitAt(sprite, vx, vy, col, row) ==
  LET c == col - vx
      r == row - vy
  IN IF c >= 0 /\ c < 8 /\ r >= 0 /\ r < Len(sprite) THEN Bit(sprite[r + 1], 7 - c) ELSE 0

\* The rows of the glyph of digit 0.
GlyphZero == << 240, 144, 144, 144, 240 >>

\* The most recent call drew on a blank display.
DrewOnBlank == Ran("Dxyn") /\ last.display = BlankDisplay

\* C12: under every preset, drawing an n-row sprite on a blank display where it
\* crosses neither the right nor the bottom edge sets exactly the cells
\* (Vx + c, Vy + r) whose sprite bit 7 - c of row r is 1 and leaves the flag
\* register 0; with the index at the glyph of digit 0 and Vx = Vy = 0 a 5-row
\* draw gives the pattern F0 90 90 90 F0 in the top-left 8x5 cells.
C12_DrawOnBlank ==
  /\ (DrewOnBlank /\ SpriteFits) =>
       /\ \A row \in 0..(c_displayHeight - 1), col \in 0..(c_displayWidth - 1) :
             m_display[row * c_displayWidth + col]
               = SpriteBitAt(last.sprite, last.v[LastX], last.v[LastY], col, row)
       /\ m_v[15] = 0
  /\ (DrewOnBlank /\ last.index = c_fontStartAddress /\ LastN = 5
        /\ last.v[LastX] = 0 /\ last.v[LastY] = 0) =>
       /\ \A row \in 0..(c_displayHeight - 1), col \in 0..(c_displayWidth - 1) :
             m_display[row * c_displayWidth + col] = SpriteBitAt(GlyphZero, 0, 0, col, row)
       /\ m_v[15] = 0

\* The glyph of digit 0 has been drawn at (0, 0) under the clipping preset.
C12_Witness ==
  /\ DrewOnBlank /\ SpriteFits
  /\ last.index = c_fontStartAddress /\ LastN = 5
  /\ last.v[LastX] = 0 /\ last.v[LastY] = 0
  /\ HasFlag(m_flags, draw_legacy)
  /\ m_display[0] = 1 /\ m_display[4] = 0 /\ m_display[c_displayWidth + 3] = 1
  /\ m_v[15] = 0

(***************************************************************************)
(* SpecDecode: dispatch.  The program is a single opcode, of any family    *)
(* and with any low byte.                                                  *)
(***************************************************************************)
MaxStepsDecode == 1
DecodeXs == {0, 15}

DecodeOpcodes == { Op(a, x, c, d) : a \in 0..15, x \in DecodeXs, c \in 0..15, d \in 0..15 }
DecodePrograms == { << op >> : op \in DecodeOpcodes }

LoadDecode == LoadRom(DecodePrograms)
StepDecode ==
  \E j \in JunkChoices :
     advance([key_buffer |-> NoKeys, dt |-> TickMs, rnd |-> 0, junk |-> j, pointer_bytes |-> 8], MaxStepsDecode)

NextDecode == LoadDecode \/ StepDecode
SpecDecode == InitSample /\ [][NextDecode]_vars

\* The operation the constructor's registrations give an opcode: by its top
\* nibble, and within the family by the low byte (families 0, E, F), by the
\* low nibble (families 8, 9) or by nothing (the others); "none" if there is
\* no such registration.
RegisteredFor(opcode) ==
  LET a == opcode \div 4096
      nn == opcode % 256
      n == opcode % 16
  IN CASE a = 0 -> (CASE nn = 224 -> "00E0" [] nn = 238 -> "00EE" [] nn = 0 -> "0nnn"
                      [] OTHER -> "none")
       [] a = 1 -> "1nnn" [] a = 2 -> "2nnn" [] a = 3 -> "3xnn" [] a = 4 -> "4xnn"
       [] a = 5 -> "5xy0" [] a = 6 -> "6xnn" [] a = 7 -> "7xnn"
       [] a = 8 -> (CASE n = 0 -> "8xy0" [] n = 1 -> "8xy1" [] n = 2 -> "8xy2"
                      [] n = 3 -> "8xy3" [] n = 4 -> "8xy4" [] n = 5 -> "8xy5"
                      [] n = 6 -> "8xy6" [] n = 7 -> "8xy7" [] n = 14 -> "8xyE"
                      [] OTHER -> "none")
       [] a = 9 -> (IF n = 0 THEN "9xy0" ELSE "none")
       [] a = 10 -> "Annn" [] a = 11 -> "Bnnn" [] a = 12 -> "Cxnn" [] a = 13 -> "Dxyn"
       [] a = 14 -> (CASE nn = 158 -> "Ex9E" [] nn = 161 -> "ExA1" [] OTHER -> "none")
       [] a = 15 -> (CASE nn = 7 -> "Fx07" [] nn = 10 -> "Fx0A" [] nn = 21 -> "Fx15"
                       [] nn = 24 -> "Fx18" [] nn = 30 -> "Fx1E" [] nn = 41 -> "Fx29"
                       [] nn = 51 -> "Fx33" [] nn = 85 -> "Fx55" [] nn = 101 -> "Fx65"
                       [] OTHER -> "none")

\* The most recent call of advance fetched an opcode.
Fetched == last.kind = "step" /\ ~last.waiting

\* The most recent call executed the operation registered for its opcode and
\* did not reach unimplemented().
RanRegistered == last.executed /\ last.body = RegisteredFor(last.opcode) /\ ~m_fatal

\* C13 as stated: an opcode with no registered operation ends the step in the
\* fatal unimplemented condition, and every other opcode executes its
\* registered operation without reaching that condition.
C13_UnregisteredOnly ==
  Fetched =>
    IF RegisteredFor(last.opcode) = "none" THEN m_fatal ELSE RanRegistered

\* C13: an opcode with no registered operation ends the step in the fatal
\* unimplemented condition; so does a family-0 opcode whose low byte is 00,
\* whose registered operation is the unimplemented report itself; every other
\* opcode executes its registered operation without reaching that condition.
C13_Unimplemented ==
  Fetched =>
    CASE RegisteredFor(last.opcode) = "none" -> m_fatal /\ ~last.executed
      [] RegisteredFor(last.opcode) = "0nnn" -> m_fatal /\ last.executed /\ last.body = "0nnn"
      [] OTHER -> RanRegistered

\* An opcode of family 8 with no registration (8xy8 and the like) was fetched
\* and the step ended in the fatal condition.
C13_Witness ==
  /\ Fetched
  /\ last.opcode \div 4096 = 8
  /\ RegisteredFor(last.opcode) = "none"
  /\ m_fatal
  /\ m_pc = last.pc + 2

(***************************************************************************)
(* SpecStack: calls and returns.  The programs are a subroutine calling    *)
(* itself without end, a return with nothing to return to, and nested      *)
(* subroutines that return.                                                *)
(***************************************************************************)
MaxStepsStack == 1033
PointerBytes == {4, 8}

StackPrograms ==
  { << 8704 >>,                                \* 200: call 200
    << 238 >>,                                 \* 200: return
    << 8708, 238, 238 >>,                      \* 200: call 204; 202, 204: return
    << 8710, 8714, 0, 8714, 238, 238 >>,       \* 200: call 206; 202: call 20A; 204: halt;
                                               \* 206: call 20A; 208, 20A: return
    << 8708, 0, 224, 238 >> }                  \* 200: call 204; 202: halt; 204: clear;
                                               \* 206: return

LoadStack == LoadRom(StackPrograms)
StepStack ==
  \E j \in JunkChoices, pb \in PointerBytes :
     advance([key_buffer |-> NoKeys, dt |-> TickMs, rnd |-> 0, junk |-> j,
              pointer_bytes |-> pb], MaxStepsStack)

NextStack == LoadStack \/ StepStack
SpecStack == InitSample /\ [][NextStack]_vars

\* C14 as stated: in every reachable state the stack pointer is within the
\* stack, 0 <= sp < 1024.
C14_StackPointerInRange == m_sp >= 0 /\ m_sp < c_maxStack

\* The call the return just executed matches: the newest call not yet
\* returned from before that return, if its push was within the stack.
MatchingCall == last2.returns[Len(last2.returns)]
ReturnedFromCall ==
  /\ Ran("00EE")
  /\ last2.returns # << >>
  /\ MatchingCall[2] < c_maxStack

\* C16: 2nnn fetched at a stores a + 2 at stack[sp], increments sp and sets the
\* program counter to nnn; 00EE decrements sp and sets the program counter to
\* stack[sp]; so, with the depth within the stack's capacity, each return
\* resumes right after its matching call with sp as it was before that call.
C16_CallReturn ==
  /\ (Ran("2nnn") /\ last.sp < c_maxStack) =>
       /\ m_stack[last.sp] = last.fetched_at + 2
       /\ m_sp = last.sp + 1
       /\ m_pc = last.opcode % 4096
  /\ (Ran("00EE") /\ last.sp >= 1 /\ last.sp <= c_maxStack) =>
       /\ m_sp = last.sp - 1
       /\ m_pc = m_stack[m_sp]
  /\ ReturnedFromCall =>
       /\ m_pc = MatchingCall[1]
       /\ m_sp = MatchingCall[2]

\* A return from the outer of two nested calls: the inner call and its return
\* lie between the outer call at 0x200 and this return to 0x202.
C16_Witness ==
  /\ ReturnedFromCall
  /\ last2.kind = "step" /\ last2.body = "00EE"
  /\ Len(last2.returns) = 1
  /\ m_pc = c_romStartAddress + 2
  /\ m_sp = 0

(***************************************************************************)
(* SpecDisplay: what writes the display.  The program sets register 0,     *)
(* sets the index register to 0xFFF, adds register 0 to it a number of     *)
(* times and then stores through it, draws or clears.                      *)
(***************************************************************************)
MaxStepsDisplay == 12
IndexAdds == {0, 8, 9}
IndexSteps == {129, 255}
LastOps == { OpNN(15, 0, 51), OpNN(15, 0, 85), Op(13, 0, 0, 5), 224 }

DisplayProgram(v, k, op) ==
  [i \in 1..(k + 3) |->
     IF i = 1 THEN OpNN(6, 0, v)
     ELSE IF i = 2 THEN OpNN(10, 15, 255)
     ELSE IF i = k + 3 THEN op
     ELSE OpNN(15, 0, 30)]

DisplayPrograms ==
  { DisplayProgram(v, k, op) : v \in IndexSteps, k \in IndexAdds, op \in LastOps }

LoadDisplay == LoadRom(DisplayPrograms)
StepDisplay ==
  \E j \in JunkChoices, pb \in PointerBytes :
     advance([key_buffer |-> NoKeys, dt |-> TickMs, rnd |-> 0, junk |-> j,
              pointer_bytes |-> pb], MaxStepsDisplay)

NextDisplay == LoadDisplay \/ StepDisplay
SpecDisplay == InitSample /\ [][NextDisplay]_vars

\* C15 as stated: every display cell holds 0 or 1, and the display changes
\* only in a step that executes 00E0 or Dxyn.
C15_DisplayOnlyClearedOrDrawn ==
  /\ \A c \in Cells : m_display[c] \in {0, 1}
  /\ (last.kind = "step" /\ m_display # last.display) =>
       (last.executed /\ last.body \in {"00E0", "Dxyn"})

(***************************************************************************)
(* SpecIndex: the instructions that read or move the index register.  The  *)
(* program loads registers, sets the index register and then stores or     *)
(* loads registers 0 to x, adds the font offset of register x, or adds    *)
(* register x.                                                             *)
(***************************************************************************)
MaxStepsIndex == 4
CopyBytes == {7, 255}
CopyAddresses == {0, 768, 4090}
FontDigits == {0, 3, 10, 255}

CopyPrograms ==
  { << OpNN(6, 0, a), OpNN(6, 1, b), OpNN(10, 0, i), OpNN(15, x, low) >> :
      a \in CopyBytes, b \in CopyBytes, i \in CopyAddresses, x \in RegChoices,
      low \in {85, 101} }

FontPrograms ==
  { << OpNN(6, x, v), OpNN(10, 0, i), OpNN(15, x, 41) >> :
      x \in RegChoices, v \in FontDigits, i \in CopyAddresses }

AddBytes == {1, 32, 255}
AddAddresses == {256, 3841, 4095}

AddPrograms ==
  { << OpNN(6, x, v), OpNN(10, 0, i), OpNN(15, x, 30) >> :
      x \in RegChoices, v \in AddBytes, i \in AddAddresses }

LoadIndex == LoadRom(CopyPrograms \cup FontPrograms \cup AddPrograms)
StepIndex ==
  \E j \in JunkChoices, pb \in PointerBytes :
     advance([key_buffer |-> NoKeys, dt |-> TickMs, rnd |-> 0, junk |-> j,
              pointer_bytes |-> pb], MaxStepsIndex)

NextIndex == LoadIndex \/ StepIndex
SpecIndex == Init /\ [][NextIndex]_vars

\* The store or load just executed stayed within m_data.
CopyInRange == last.index + LastX < c_maxMemory

\* Fx55 has copied V0..Vx to memory[I..I+x] and changed nothing else; Fx65
\* has copied memory[I..I+x] to V0..Vx and changed nothing else.
CopiedRegisters ==
  /\ (Ran("Fx55") /\ CopyInRange) =>
       /\ \A k \in 0..LastX : m_data[last.index + k] = last.v[k]
       /\ last.stored \subseteq last.index..(last.index + LastX)
       /\ m_v = last.v
  /\ (Ran("Fx65") /\ CopyInRange) =>
       /\ \A k \in 0..LastX : m_v[k] = m_data[last.index + k]
       /\ \A k \in (LastX + 1)..15 : m_v[k] = last.v[k]
       /\ last.stored = {}

\* The index register after a store or load: I + x + 1 under
\* store_load_legacy, I without it.
IndexAfterStoreLoad ==
  (Ran("Fx55") \/ Ran("Fx65")) =>
    m_index = IF HasFlag(m_flags, store_load_legacy) THEN last.index + LastX + 1
              ELSE last.index

\* C18 as stated: Fx55 copies V0..Vx to memory[I..I+x] and Fx65 copies
\* memory[I..I+x] to V0..Vx, nothing else changes, and the index register
\* ends at I + x + 1 with store/load-legacy set and at I with it unset.
C18_StoreLoad == CopiedRegisters /\ IndexAfterStoreLoad

\* C19 as stated: Fx29 adds 5 * (Vx mod 16) to the index register.
C19_FontOffset ==
  Ran("Fx29") => m_index = last.index + 5 * (last.v[LastX] % 16)

\* The start position of the draw just executed.
LastSx == last.v[LastX] % c_displayWidth
LastSy == last.v[LastY] % c_displayHeight

\* The sprite bit the draw just executed XORs into cell (col, row) when
\* positions wrap around the display's edges, and when they do not.
WrappedBit(col, row) ==
  LET c == (col - LastSx + c_displayWidth) % c_displayWidth
      r == (row - LastSy + c_displayHeight) % c_displayHeight
  IN IF c < 8 /\ r < LastN THEN Bit(last.sprite[r + 1], 7 - c) ELSE 0

\* With draw-legacy unset, sprite bit (c, r) of the draw just executed is
\* XORed into cell ((sx + c) mod 64, (sy + r) mod 32).
DrawWraps ==
  (Ran("Dxyn") /\ ~HasFlag(m_flags, draw_legacy)) =>
    \A row \in 0..(c_displayHeight - 1), col \in 0..(c_displayWidth - 1) :
       m_display[row * c_displayWidth + col]
         = (last.display[row * c_displayWidth + col] + WrappedBit(col, row)) % 2

\* With draw-legacy set, no cell in a row above sy or in a column left of sx,
\* a wrapped position, is changed by the draw just executed.
DrawClips ==
  (Ran("Dxyn") /\ HasFlag(m_flags, draw_legacy)) =>
    \A row \in 0..(c_displayHeight - 1), col \in 0..(c_displayWidth - 1) :
       (row < LastSy \/ col < LastSx) =>
          m_display[row * c_displayWidth + col] = last.display[row * c_displayWidth + col]

\* C20 as stated: with draw-legacy unset, sprite bit (c, r) is XORed into cell
\* ((sx + c) mod 64, (sy + r) mod 32); with draw-legacy set every sprite row
\* with sy + r >= 32 and every sprite column with sx + c >= 64 is skipped, so
\* no cell at a wrapped position is changed.
C20_WrapOrClip == DrawWraps /\ DrawClips

\* The sum Fx1E is to form: the index register plus register x, both as they
\* were before the step.
LastIndexSum == last.index + last.v[LastX]

\* The flag register after Fx1E is 1 iff I + Vx > 0xFFF, on the values before
\* the step.
FlagAfterAdd ==
  Ran("Fx1E") => m_v[15] = (IF LastIndexSum > 4095 THEN 1 ELSE 0)

\* The index register after Fx1E is I + Vx (mod 2^16), on the values before
\* the step, for the registers x of `xs`.
IndexAfterAdd(xs) ==
  (Ran("Fx1E") /\ LastX \in xs) => m_index = LastIndexSum % 65536

\* C21 as stated: after Fx1E, for every x in 0..15, the flag register is 1 iff
\* I + Vx > 0xFFF and the index register is I + Vx mod 2^16, both on the values
\* before the step.
C21_AddToIndex == FlagAfterAdd /\ IndexAfterAdd(0..15)

\* C22: after every step, waiting or not, the current key snapshot is the
\* key vector supplied to that step and the previous key snapshot is the key
\* vector supplied to the step before it, all keys released for the first.
C22_KeySnapshots ==
  last.kind = "step" =>
    /\ m_key = last.key
    /\ m_prev_key = PrecedingKeys

\* A step taken while waiting for a key, given a vector other than the one
\* of the step before it, neither with all keys released.
C22_Witness ==
  /\ last.kind = "step" /\ last.waiting
  /\ last2.kind = "step"
  /\ last.key # last2.key /\ last.key # NoKeys /\ last2.key # NoKeys
  /\ m_key = last.key
  /\ m_prev_key = last2.key

\* C23: every step that executes Fx0A, from the one that fetches it to the one
\* that leaves the waiting state, changes nothing but Vx, the key snapshots
\* and the timers: memory, display, stack, stack pointer and index register
\* are unchanged, the program counter is the address of Fx0A plus 2, and every
\* general register other than Vx is unchanged.  Vx changes only to the index
\* of the lowest key whose state changed, a key only pressed included.
C23_WaitFrame ==
  Ran("Fx0A") =>
    /\ last.changed = {}
    /\ m_display = last.display
    /\ m_sp = last.sp
    /\ m_index = last.index
    /\ m_pc = last.fetched_at + 2
    /\ last.waiting => m_pc = last.pc
    /\ \A i \in 0..15 : i # LastX => m_v[i] = last.v[i]
    /\ m_v[LastX] # last.v[LastX] =>
         /\ m_v[LastX] \in 0..(c_maxKeys - 1)
         /\ last.key[m_v[LastX]] # PrecedingKeys[m_v[LastX]]
         /\ LowestChanged(m_v[LastX])

\* A step taken while waiting has overwritten Vx with the index of a key that
\* was only pressed, and the engine goes on waiting at the same address.
C23_Witness ==
  /\ Ran("Fx0A") /\ last.waiting
  /\ m_isWaitingForInput
  /\ m_v[LastX] # last.v[LastX]
  /\ last.key[m_v[LastX]] # 0
  /\ m_pc = last.pc
  /\ m_pc = last.fetched_at + 2

\* The value a timer has after a ticked step, from its value when the step's
\* instruction has run.
Ticked(timer) == IF timer > 0 THEN timer - 1 ELSE 0

\* C24: the waiting-for-key state does not suspend the timers.  In every step
\* in which the tick period has elapsed, whether the step began waiting, ends
\* waiting or neither, each non-zero timer is decremented by one; so a timer
\* that is non-zero when the engine starts waiting loses one at each ticked
\* step, down to 0, with no key released.
C24_TimersWhileWaiting ==
  (Stepped /\ last.elapsed_ms >= TickMs) =>
    /\ m_delay = Ticked(last.delay_mid)
    /\ m_sound = Ticked(last.sound_mid)
    /\ (last.waiting /\ m_isWaitingForInput) =>
         /\ m_delay = Ticked(last.delay)
         /\ m_sound = Ticked(last.sound)

\* The engine began waiting with the sound timer at 1 and the delay timer
\* higher; the next step, still waiting and with no key touched, has ticked:
\* the sound timer has reached 0 and the delay timer has lost one.
C24_Witness ==
  /\ Stepped /\ last.waiting /\ m_isWaitingForInput
  /\ last.key = NoKeys /\ PrecedingKeys = NoKeys
  /\ last.elapsed_ms >= TickMs
  /\ last.sound = 1 /\ m_sound = 0
  /\ last.delay > 1 /\ m_delay = last.delay - 1

\* C25: every read of the 16-element key snapshot is at an index in 0..15;
\* Ex9E and ExA1, which index the snapshot by Vx, never read outside it for
\* any value of Vx in 0..255.
C25_KeyReadsInRange ==
  (Ran("Ex9E") \/ Ran("ExA1")) => last.v[LastX] \in 0..(c_maxKeys - 1)

====
